---- MODULE Spec2Model ----
(***************************************************************************)
(* Sidecar supervisor of the desktop shell (frontend/src-tauri/src/lib.rs):*)
(* the setup hook spawns the backend server as a child process and stores  *)
(* its handle in SidecarState.child (a Mutex<Option<CommandChild>>), a     *)
(* background task drains the child's CommandEvent stream to the log, and  *)
(* the window-event handler takes the handle and kills the child when a    *)
(* window is destroyed.                                                    *)
(***************************************************************************)
EXTENDS Integers, Sequences, FiniteSets, TLC

(* ------------------------------ bounds -------------------------------- *)

\* Number of windows of the application; each receives Destroyed once, and
\* any number of other window events before that.
NumWindows == 2

\* Number of stdout/stderr/error events the child writes in one run.
MaxEvents == 2

Windows == 1..NumWindows

(* ------------------------------ values -------------------------------- *)

\* Option::None of SidecarState.child and of the handler's local `child`.
None == "None"

\* The CommandChild returned by the one command.spawn() of the setup hook.
Handle == "child"

\* Byte lines the child can write: "a" followed by a byte that is not UTF-8.
Lines == {<<97, 255>>}

\* Holders of the Mutex guard.
Free == <<>>
BySetup == <<"setup">>
ByWindow(w) == <<"window", w>>

\* payload.code of CommandEvent::Terminated (an Option<i32>): the child's
\* own exit status, or none when a signal ended it.
ExitCodes == {"Some(0)", "None"}

\* U+FFFD REPLACEMENT CHARACTER
ReplacementChar == 65533

\* String::from_utf8_lossy on these lines: an ASCII byte is its own
\* code point, any other lone byte is replaced by U+FFFD.
FromUtf8Lossy(line) ==
    [i \in 1..Len(line) |-> IF line[i] < 128 THEN line[i] ELSE ReplacementChar]

VARIABLES
    child,          \* SidecarState.child: None or Handle
    lock,           \* holder of the Mutex guard: Free, BySetup or ByWindow(w)
    setupPc,        \* position of the setup closure
    setupRet,       \* what the setup closure returned: None, "Ok" or "Err"
    wpc,            \* per window: position of the on_window_event handler
    local,          \* per window: the handler's local `child` (result of take)
    proc,           \* the OS process: "none", "alive", "exited"
    exitCode,       \* exit status of the OS process once it has exited
    rx,             \* events sent on the CommandEvent channel, not yet received
    rxClosed,       \* all senders of the channel are dropped
    termSent,       \* the Terminated event has been sent on the channel
    emitted,        \* number of line/error events the child has written
    listener,       \* the output task: "none", "running", "done"
    log,            \* println!/eprintln! calls made so far, in program order
    kills,          \* sequence of results of the child.kill() calls issued
    spawns,         \* sequence of results of the command.spawn() calls made
    childState,     \* supervisor's view of the child
    panicked        \* a hook or handler unwound (an error left the component)

vars == <<child, lock, setupPc, setupRet, wpc, local, proc, exitCode,
          rx, rxClosed, termSent, emitted, listener, log, kills, spawns,
          childState, panicked>>

procVars == <<proc, exitCode, rx, rxClosed, termSent, emitted>>
winVars == <<wpc, local>>

(* ----------------------------- log lines ------------------------------ *)

Out(tag, payload) == [sink |-> "stdout", tag |-> tag, payload |-> payload]
Err(tag, payload) == [sink |-> "stderr", tag |-> tag, payload |-> payload]

(* ------------------------------- Init --------------------------------- *)

Init ==
    /\ child = None
    /\ lock = Free
    /\ setupPc = "sidecar"
    /\ setupRet = None
    /\ wpc = [w \in Windows |-> "open"]
    /\ local = [w \in Windows |-> None]
    /\ proc = "none"
    /\ exitCode = None
    /\ rx = <<>>
    /\ rxClosed = FALSE
    /\ termSent = FALSE
    /\ emitted = 0
    /\ listener = "none"
    /\ log = <<>>
    /\ kills = <<>>
    /\ spawns = <<>>
    /\ childState = "NotStarted"
    /\ panicked = FALSE

(* --------------------------- setup closure ---------------------------- *)

\* shell.sidecar("streamdeck-server") returns Ok(command).
SetupSidecarOk ==
    /\ setupPc = "sidecar"
    /\ setupPc' = "spawn"
    /\ UNCHANGED <<child, lock, setupRet, winVars, procVars, listener, log,
                   kills, spawns, childState, panicked>>

\* shell.sidecar(..) returns Err(e): eprintln!, then the closure returns Ok(()).
SetupSidecarErr ==
    /\ setupPc = "sidecar"
    /\ log' = Append(log, Err("Failed to create sidecar command", <<>>))
    /\ setupPc' = "done"
    /\ setupRet' = "Ok"
    /\ UNCHANGED <<child, lock, winVars, procVars, listener, kills, spawns,
                   childState, panicked>>

\* Variant of SetupSpawnOk: the output task is started as soon as spawn()
\* returns, before the handle is stored.
SetupSpawnOkListensFirst ==
    /\ setupPc = "spawn"
    /\ spawns' = Append(spawns, "Ok")
    /\ proc' = "alive"
    /\ childState' = "Running"
    /\ listener' = "running"
    /\ setupPc' = "lock"
    /\ UNCHANGED <<child, lock, setupRet, winVars, exitCode, rx, rxClosed,
                   termSent, emitted, log, kills, panicked>>

\* command.spawn() returns Ok((rx, child)): the OS process runs from here on.
SetupSpawnOk ==
    /\ setupPc = "spawn"
    /\ spawns' = Append(spawns, "Ok")
    /\ proc' = "alive"
    /\ childState' = "Running"
    /\ setupPc' = "lock"
    /\ UNCHANGED <<child, lock, setupRet, winVars, exitCode, rx, rxClosed,
                   termSent, emitted, listener, log, kills, panicked>>

\* Variant of SetupSpawnErr: the output task is started although spawn() failed.
SetupSpawnErrListens ==
    /\ setupPc = "spawn"
    /\ spawns' = Append(spawns, "Err")
    /\ log' = Append(log, Err("Failed to spawn backend server", <<>>))
    /\ listener' = "running"
    /\ setupPc' = "done"
    /\ setupRet' = "Ok"
    /\ UNCHANGED <<child, lock, winVars, procVars, kills, childState,
                   panicked>>

\* Variant of SetupSpawnErr: a rejected spawn() is tried again.
SetupSpawnErrRetries ==
    /\ setupPc = "spawn"
    /\ spawns' = Append(spawns, "Err")
    /\ log' = Append(log, Err("Failed to spawn backend server", <<>>))
    /\ UNCHANGED <<child, lock, setupPc, setupRet, winVars, procVars,
                   listener, kills, childState, panicked>>

\* command.spawn() returns Err(e): eprintln!, then the closure returns Ok(()).
SetupSpawnErr ==
    /\ setupPc = "spawn"
    /\ spawns' = Append(spawns, "Err")
    /\ log' = Append(log, Err("Failed to spawn backend server", <<>>))
    /\ setupPc' = "done"
    /\ setupRet' = "Ok"
    /\ UNCHANGED <<child, lock, winVars, procVars, listener, kills,
                   childState, panicked>>

\* state.child.lock().unwrap(): blocks while another thread holds the guard.
\* No thread unwinds while holding it, so the mutex is never poisoned.
SetupLock ==
    /\ setupPc = "lock"
    /\ lock = Free
    /\ lock' = BySetup
    /\ setupPc' = "store"
    /\ UNCHANGED <<child, setupRet, winVars, procVars, listener, log, kills,
                   spawns, childState, panicked>>

\* *guard = Some(child); the temporary guard is dropped at the end of the
\* statement.
SetupStore ==
    /\ setupPc = "store"
    /\ child' = Handle
    /\ lock' = Free
    /\ setupPc' = "listen"
    /\ UNCHANGED <<setupRet, winVars, procVars, listener, log, kills, spawns,
                   childState, panicked>>

\* tauri::async_runtime::spawn(async move { .. }): the output task starts.
SetupListen ==
    /\ setupPc = "listen"
    /\ listener' = "running"
    /\ setupPc' = "started"
    /\ UNCHANGED <<child, lock, setupRet, winVars, procVars, log, kills,
                   spawns, childState, panicked>>

\* println!("Backend server started successfully"); Ok(())
SetupStarted ==
    /\ setupPc = "started"
    /\ log' = Append(log, Out("Backend server started successfully", <<>>))
    /\ setupPc' = "done"
    /\ setupRet' = "Ok"
    /\ UNCHANGED <<child, lock, winVars, procVars, listener, kills, spawns,
                   childState, panicked>>

Setup ==
    \/ SetupSidecarOk
    \/ SetupSidecarErr
    \/ SetupSpawnOk
    \/ SetupSpawnErr
    \/ SetupLock
    \/ SetupStore
    \/ SetupListen
    \/ SetupStarted

(* ----------------------- child process and stream --------------------- *)

StdoutEv(line) == [kind |-> "Stdout", line |-> line, code |-> None]
StderrEv(line) == [kind |-> "Stderr", line |-> line, code |-> None]
ErrorEv == [kind |-> "Error", line |-> <<>>, code |-> None]
TerminatedEv(code) == [kind |-> "Terminated", line |-> <<>>, code |-> code]

\* The plugin's reader threads send what the child wrote on its pipes; they
\* may still be flushing after the process has exited.
ChildEmit ==
    /\ proc \in {"alive", "exited"}
    /\ ~rxClosed
    /\ emitted < MaxEvents
    /\ \E e \in {StdoutEv(l) : l \in Lines} \cup {StderrEv(l) : l \in Lines}
                    \cup {ErrorEv} :
           rx' = Append(rx, e)
    /\ emitted' = emitted + 1
    /\ UNCHANGED <<child, lock, setupPc, setupRet, winVars, proc, exitCode,
                   rxClosed, termSent, listener, log, kills, spawns,
                   childState, panicked>>

\* The child exits on its own with an exit code.
ChildExit ==
    /\ proc = "alive"
    /\ proc' = "exited"
    /\ exitCode' = "Some(0)"
    /\ UNCHANGED <<child, lock, setupPc, setupRet, winVars, rx, rxClosed,
                   termSent, emitted, listener, log, kills, spawns,
                   childState, panicked>>

\* The plugin's wait thread sends Terminated once the process has exited.
StreamTerminated ==
    /\ proc = "exited"
    /\ ~termSent
    /\ ~rxClosed
    /\ rx' = Append(rx, TerminatedEv(exitCode))
    /\ termSent' = TRUE
    /\ UNCHANGED <<child, lock, setupPc, setupRet, winVars, proc, exitCode,
                   rxClosed, emitted, listener, log, kills, spawns,
                   childState, panicked>>

\* Every sender of the channel is dropped: recv() yields None once drained.
StreamClose ==
    /\ proc = "exited"
    /\ ~rxClosed
    /\ rxClosed' = TRUE
    /\ UNCHANGED <<child, lock, setupPc, setupRet, winVars, proc, exitCode,
                   rx, termSent, emitted, listener, log, kills, spawns,
                   childState, panicked>>

(* ---------------------------- listener task --------------------------- *)

\* Variant of ListenLog: the catch-all arm logs the event as a backend error.
ListenLogAll(e) ==
    CASE e.kind = "Stdout" -> <<Out("[Backend]", FromUtf8Lossy(e.line))>>
      [] e.kind = "Stderr" -> <<Err("[Backend Error]", FromUtf8Lossy(e.line))>>
      [] e.kind = "Terminated" ->
             <<Out("[Backend] Process terminated with code", e.code)>>
      [] OTHER -> <<Err("[Backend Error]", e.line)>>

\* The log line the match arm of the event writes (none for `_ => {}`).
ListenLog(e) ==
    CASE e.kind = "Stdout" -> <<Out("[Backend]", FromUtf8Lossy(e.line))>>
      [] e.kind = "Stderr" -> <<Err("[Backend Error]", FromUtf8Lossy(e.line))>>
      [] e.kind = "Terminated" ->
             <<Out("[Backend] Process terminated with code", e.code)>>
      [] OTHER -> <<>>

\* Variant of ListenRecv: the Terminated arm does not break.
ListenRecvNoBreak ==
    /\ listener = "running"
    /\ rx # <<>>
    /\ LET e == Head(rx) IN
         /\ rx' = Tail(rx)
         /\ log' = log \o ListenLog(e)
         /\ childState' = IF e.kind = "Terminated" THEN "Terminated"
                          ELSE childState
    /\ UNCHANGED <<child, lock, setupPc, setupRet, winVars, proc, exitCode,
                   rxClosed, termSent, emitted, listener, kills, spawns,
                   panicked>>

\* Variant of ListenRecv: the Terminated arm empties the slot.
ListenRecvClears ==
    /\ listener = "running"
    /\ rx # <<>>
    /\ LET e == Head(rx) IN
         /\ rx' = Tail(rx)
         /\ log' = log \o ListenLog(e)
         /\ listener' = IF e.kind = "Terminated" THEN "done" ELSE "running"
         /\ childState' = IF e.kind = "Terminated" THEN "Terminated"
                          ELSE childState
         /\ child' = IF e.kind = "Terminated" THEN None ELSE child
    /\ UNCHANGED <<lock, setupPc, setupRet, winVars, proc, exitCode,
                   rxClosed, termSent, emitted, kills, spawns, panicked>>

\* Variant of ListenRecv: the Terminated arm has the backend spawned again.
ListenRecvRestarts ==
    /\ listener = "running"
    /\ rx # <<>>
    /\ LET e == Head(rx) IN
         /\ rx' = Tail(rx)
         /\ log' = log \o ListenLog(e)
         /\ listener' = IF e.kind = "Terminated" THEN "done" ELSE "running"
         /\ childState' = IF e.kind = "Terminated" THEN "Terminated"
                          ELSE childState
         /\ setupPc' = IF e.kind = "Terminated" /\ setupPc = "done"
                       THEN "spawn" ELSE setupPc
    /\ UNCHANGED <<child, lock, setupRet, winVars, proc, exitCode,
                   rxClosed, termSent, emitted, kills, spawns, panicked>>

\* One iteration of `while let Some(event) = rx.recv().await { match .. }`.
ListenRecv ==
    /\ listener = "running"
    /\ rx # <<>>
    /\ LET e == Head(rx) IN
         /\ rx' = Tail(rx)
         /\ log' = log \o ListenLog(e)
         /\ listener' = IF e.kind = "Terminated" THEN "done" ELSE "running"
         /\ childState' = IF e.kind = "Terminated" THEN "Terminated"
                          ELSE childState
    /\ UNCHANGED <<child, lock, setupPc, setupRet, winVars, proc, exitCode,
                   rxClosed, termSent, emitted, kills, spawns, panicked>>

\* Variant of ListenEnd: the end of the stream is reported as an error.
ListenEndReports ==
    /\ listener = "running"
    /\ rx = <<>>
    /\ rxClosed
    /\ listener' = "done"
    /\ log' = Append(log, Err("[Backend Error]", <<>>))
    /\ UNCHANGED <<child, lock, setupPc, setupRet, winVars, procVars,
                   kills, spawns, childState, panicked>>

\* rx.recv() yields None: the loop and the task end.
ListenEnd ==
    /\ listener = "running"
    /\ rx = <<>>
    /\ rxClosed
    /\ listener' = "done"
    /\ UNCHANGED <<child, lock, setupPc, setupRet, winVars, procVars, log,
                   kills, spawns, childState, panicked>>

Listen == ListenRecv \/ ListenEnd

(* ------------------------ window-event handler ------------------------ *)

\* A window event other than Destroyed is dispatched for window w: the
\* handler is entered with it.
WindowOther(w) ==
    /\ wpc[w] = "open"
    /\ wpc' = [wpc EXCEPT ![w] = "other"]
    /\ UNCHANGED <<child, lock, setupPc, setupRet, local, procVars, listener,
                   log, kills, spawns, childState, panicked>>

\* Variant of WindowOtherReturn: the handler does not test the event and goes
\* on to take the handle.
WindowOtherShutsDown(w) ==
    /\ wpc[w] = "other"
    /\ wpc' = [wpc EXCEPT ![w] = "lock"]
    /\ UNCHANGED <<child, lock, setupPc, setupRet, local, procVars, listener,
                   log, kills, spawns, childState, panicked>>

\* `if let tauri::WindowEvent::Destroyed = event` fails and the handler
\* returns at once.
WindowOtherReturn(w) ==
    /\ wpc[w] = "other"
    /\ wpc' = [wpc EXCEPT ![w] = "open"]
    /\ UNCHANGED <<child, lock, setupPc, setupRet, local, procVars, listener,
                   log, kills, spawns, childState, panicked>>

\* WindowEvent::Destroyed is dispatched for window w. The handler does not
\* look at which window it is called for, so the windows are numbered in the
\* order in which they are destroyed.
WindowDestroyed(w) ==
    /\ wpc[w] = "open"
    /\ \A v \in Windows : v < w => wpc[v] \notin {"open", "other"}
    /\ wpc' = [wpc EXCEPT ![w] = "lock"]
    /\ UNCHANGED <<child, lock, setupPc, setupRet, local, procVars, listener,
                   log, kills, spawns, childState, panicked>>

\* Variant of WindowLock: the handler does not wait for the guard.
WindowLockNoExclusion(w) ==
    /\ wpc[w] = "lock"
    /\ lock' = ByWindow(w)
    /\ wpc' = [wpc EXCEPT ![w] = "take"]
    /\ UNCHANGED <<child, setupPc, setupRet, local, procVars,
                   listener, log, kills, spawns, childState, panicked>>

\* state.child.lock().unwrap()
WindowLock(w) ==
    /\ wpc[w] = "lock"
    /\ lock = Free
    /\ lock' = ByWindow(w)
    /\ wpc' = [wpc EXCEPT ![w] = "take"]
    /\ UNCHANGED <<child, setupPc, setupRet, local, procVars,
                   listener, log, kills, spawns, childState, panicked>>

\* let child = { .. .take() }: Option::take is mem::replace(slot, None). This
\* step reads the old value into the handler's local `child`.
WindowTakeRead(w) ==
    /\ wpc[w] = "take"
    /\ local' = [local EXCEPT ![w] = child]
    /\ wpc' = [wpc EXCEPT ![w] = "clear"]
    /\ UNCHANGED <<child, lock, setupPc, setupRet, procVars, listener, log,
                   kills, spawns, childState, panicked>>

\* Variant of WindowTakeWrite: the slot is read but not emptied.
WindowTakeWriteKeeps(w) ==
    /\ wpc[w] = "clear"
    /\ lock' = Free
    /\ wpc' = [wpc EXCEPT ![w] = IF local[w] # None THEN "kill" ELSE "closed"]
    /\ UNCHANGED <<child, setupPc, setupRet, local, procVars, listener, log,
                   kills, spawns, childState, panicked>>

\* Variant of WindowTakeWrite: the completion line is logged outside the
\* `if let Some(child)`.
WindowTakeWriteAlwaysLogs(w) ==
    /\ wpc[w] = "clear"
    /\ child' = None
    /\ lock' = Free
    /\ wpc' = [wpc EXCEPT ![w] = IF local[w] # None THEN "kill" ELSE "log"]
    /\ UNCHANGED <<setupPc, setupRet, local, procVars, listener, log, kills,
                   spawns, childState, panicked>>

\* Variant of WindowTakeWrite: the guard is bound to a name and lives to the
\* end of the handler.
WindowTakeWriteHoldsGuard(w) ==
    /\ wpc[w] = "clear"
    /\ child' = None
    /\ wpc' = [wpc EXCEPT ![w] = IF local[w] # None THEN "kill" ELSE "closed"]
    /\ UNCHANGED <<lock, setupPc, setupRet, local, procVars, listener, log,
                   kills, spawns, childState, panicked>>

\* .. and this step writes None to the slot; the guard is dropped at the end
\* of the block. `if let Some(child) = child` then selects the kill or the end
\* of the handler.
WindowTakeWrite(w) ==
    /\ wpc[w] = "clear"
    /\ child' = None
    /\ lock' = Free
    /\ wpc' = [wpc EXCEPT ![w] = IF local[w] # None THEN "kill" ELSE "closed"]
    /\ UNCHANGED <<setupPc, setupRet, local, procVars, listener, log, kills,
                   spawns, childState, panicked>>

\* Variant of WindowKill: the completion line is logged only when the kill
\* request succeeded.
WindowKillLogsOnSuccess(w) ==
    /\ wpc[w] = "kill"
    /\ \E ok \in BOOLEAN :
         /\ kills' = Append(kills, IF ok THEN "Ok" ELSE "Err")
         /\ IF ok /\ proc = "alive"
              THEN proc' = "exited" /\ exitCode' = "None"
              ELSE UNCHANGED <<proc, exitCode>>
         /\ wpc' = [wpc EXCEPT ![w] = IF ok THEN "log" ELSE "closed"]
    /\ childState' = "Killed"
    /\ UNCHANGED <<child, lock, setupPc, setupRet, local, rx,
                   rxClosed, termSent, emitted, listener, log, spawns,
                   panicked>>

\* let _ = child.kill(): the request succeeds or fails; a successful request
\* ends a process that is still alive (no exit code: it died by a signal).
\* The result is discarded.
WindowKill(w) ==
    /\ wpc[w] = "kill"
    /\ \E ok \in BOOLEAN :
         /\ kills' = Append(kills, IF ok THEN "Ok" ELSE "Err")
         /\ IF ok /\ proc = "alive"
              THEN proc' = "exited" /\ exitCode' = "None"
              ELSE UNCHANGED <<proc, exitCode>>
    /\ childState' = "Killed"
    /\ wpc' = [wpc EXCEPT ![w] = "log"]
    /\ UNCHANGED <<child, lock, setupPc, setupRet, local, rx,
                   rxClosed, termSent, emitted, listener, log, spawns,
                   panicked>>

\* println!("Backend server stopped")
WindowLog(w) ==
    /\ wpc[w] = "log"
    /\ log' = Append(log, Out("Backend server stopped", <<>>))
    /\ wpc' = [wpc EXCEPT ![w] = "closed"]
    /\ UNCHANGED <<child, lock, setupPc, setupRet, local, procVars,
                   listener, kills, spawns, childState, panicked>>

Window(w) ==
    \/ WindowOther(w)
    \/ WindowOtherReturn(w)
    \/ WindowDestroyed(w)
    \/ WindowLock(w)
    \/ WindowTakeRead(w)
    \/ WindowTakeWrite(w)
    \/ WindowKill(w)
    \/ WindowLog(w)

(* ---------------------------- specification --------------------------- *)

Next ==
    \/ Setup
    \/ ChildEmit
    \/ ChildExit
    \/ StreamTerminated
    \/ StreamClose
    \/ Listen
    \/ \E w \in Windows : Window(w)

Spec == Init /\ [][Next]_vars

\* The runtime schedules the setup hook, the output task and every dispatched
\* handler to completion; the plugin's wait thread reports an exited process
\* and then drops its sender. Whether and when the child exits on its own,
\* writes output, or a window is destroyed is up to the environment.
FairSpec ==
    /\ Spec
    /\ WF_vars(Setup)
    /\ WF_vars(Listen)
    /\ WF_vars(StreamTerminated)
    /\ WF_vars(StreamClose)
    /\ \A w \in Windows :
         WF_vars(WindowOtherReturn(w) \/ WindowLock(w) \/ WindowTakeRead(w)
                   \/ WindowTakeWrite(w) \/ WindowKill(w) \/ WindowLog(w))

(* ------------------------- derived observations ----------------------- *)

\* command.spawn() succeeded and its handle has been written to the slot.
Stored == spawns = <<"Ok">> /\ setupPc \in {"listen", "started", "done"}

\* The setup hook has ended without a child: sidecar() or spawn() failed.
SetupFailed == setupPc = "done" /\ spawns # <<"Ok">>

\* Windows whose handler obtained the handle from the slot.
Takers == {w \in Windows : local[w] = Handle}

\* Windows whose handler has issued its kill request.
Killers == {w \in Takers : wpc[w] \in {"log", "closed"}}

IsTermination(entry) == entry.tag = "[Backend] Process terminated with code"
IsBackendLine(entry) == entry.tag \in {"[Backend]", "[Backend Error]"}
IsStopped(entry) == entry.tag = "Backend server stopped"
IsFailure(entry) ==
    /\ entry.sink = "stderr"
    /\ ~IsBackendLine(entry)

\* Entries written by the output task.
ListenerLog == SelectSeq(log, LAMBDA en : IsBackendLine(en) \/ IsTermination(en))

\* The output task has logged a Terminated event.
TermObserved == \E i \in 1..Len(log) : IsTermination(log[i])

(* ------------------------------- claims ------------------------------- *)

\* C1: at most one kill request is ever issued for the child handle, over
\* every interleaving of the spawn with any number of window-destroyed
\* handlers.
C1_NoDoubleKill == Len(kills) <= 1

\* C1 witness: every window has been destroyed after a successful spawn and
\* exactly one kill request was issued.
C1_Witness ==
    /\ Stored
    /\ \A w \in Windows : wpc[w] = "closed"
    /\ Len(kills) = 1

\* C2: at most one handler ever obtains the handle; once the handle is stored
\* and no take is in progress, the slot holds it or exactly one handler has
\* obtained it; every handler that obtained it issues one kill request, a
\* handler that saw the empty slot issues none.
C2_ExclusiveTake ==
    /\ Cardinality(Takers) <= 1
    /\ (Stored /\ \A w \in Windows : wpc[w] # "clear") =>
         \/ child = Handle /\ Takers = {}
         \/ child = None /\ Cardinality(Takers) = 1
    /\ Len(kills) = Cardinality(Killers)

\* C2 witness: two handlers overlap; one holds the handle and is about to
\* kill, the other holds the guard and has read the empty slot.
C2_Witness ==
    \E w1, w2 \in Windows :
        /\ w1 # w2
        /\ wpc[w1] = "kill" /\ local[w1] = Handle
        /\ wpc[w2] = "clear" /\ local[w2] = None
        /\ Stored

\* C3: when the setup hook ended because sidecar() or spawn() failed, the slot
\* is empty and no output task was started.
C3_FailedSpawnLeavesEmpty ==
    SetupFailed => child = None /\ listener = "none" /\ proc = "none"

\* C3 witness: spawn() was rejected, the hook has returned and a window has
\* since been destroyed.
C3_Witness ==
    /\ setupPc = "done"
    /\ spawns = <<"Err">>
    /\ \E w \in Windows : wpc[w] = "closed"

\* C4: a handler that finds the slot empty issues no kill request, logs
\* nothing, leaves the slot empty and ends without an error.
C4_EmptyShutdownNoop ==
    [][\A w \in Windows :
          /\ (wpc[w] = "take" /\ wpc'[w] # "take" /\ child = None) =>
                /\ local'[w] = None
                /\ child' = None /\ log' = log /\ kills' = kills
                /\ ~panicked'
          /\ (wpc[w] = "clear" /\ wpc'[w] # "clear" /\ local[w] = None) =>
                /\ child = None /\ child' = None
                /\ log' = log /\ kills' = kills
                /\ wpc'[w] = "closed"
                /\ ~panicked']_vars

\* C4 witness: a handler ended on the empty slot after an earlier shutdown had
\* taken the handle and logged its one completion line.
C4_Witness ==
    \E w1, w2 \in Windows :
        /\ wpc[w1] = "closed" /\ local[w1] = Handle
        /\ wpc[w2] = "closed" /\ local[w2] = None
        /\ Len(kills) = 1
        /\ Len(SelectSeq(log, IsStopped)) = 1

\* C5: every event the output task receives is the head of the channel; a
\* Stdout line is logged to stdout as "[Backend]", a Stderr line to stderr as
\* "[Backend Error]", the first Terminated with its exit code, each as the
\* next log entry; Terminated ends the task, and an ended task receives
\* nothing more and logs nothing more.
C5_ListenerLogsInOrder ==
    [][/\ Len(rx') < Len(rx) =>
            /\ listener = "running"
            /\ rx' = Tail(rx)
            /\ Head(rx).kind = "Stdout" =>
                  /\ Len(log') = Len(log) + 1
                  /\ SubSeq(log', 1, Len(log)) = log
                  /\ log'[Len(log')].sink = "stdout"
                  /\ log'[Len(log')].tag = "[Backend]"
            /\ Head(rx).kind = "Stderr" =>
                  /\ Len(log') = Len(log) + 1
                  /\ SubSeq(log', 1, Len(log)) = log
                  /\ log'[Len(log')].sink = "stderr"
                  /\ log'[Len(log')].tag = "[Backend Error]"
            /\ Head(rx).kind = "Terminated" =>
                  /\ Len(log') = Len(log) + 1
                  /\ SubSeq(log', 1, Len(log)) = log
                  /\ IsTermination(log'[Len(log')])
                  /\ log'[Len(log')].payload = Head(rx).code
                  /\ listener' = "done"
       /\ listener = "done" =>
            /\ listener' = "done"
            /\ Len(rx') >= Len(rx)
            /\ ListenerLog' = ListenerLog]_vars

\* C5 witness: the task logged a stdout line and then the termination, has
\* ended, and an event enqueued after Terminated is still unread.
C5_Witness ==
    /\ listener = "done"
    /\ Len(ListenerLog) = 2
    /\ ListenerLog[1].tag = "[Backend]"
    /\ IsTermination(ListenerLog[2])
    /\ rx # <<>>

\* C6: no step of the output task changes the slot; after it has logged the
\* child's termination the handle stays in the slot until a handler takes it,
\* and no handler fails.
C6_ListenerLeavesSlot ==
    [][/\ (Len(rx') < Len(rx) \/ (listener = "running" /\ listener' = "done"))
            => child' = child
       /\ (TermObserved' /\ Takers' = {}) => child' = Handle
       /\ ~panicked']_vars

\* C6 witness: the child terminated on its own, the task logged it and ended,
\* and a later shutdown took the handle, issued its kill and completed.
C6_Witness ==
    /\ listener = "done"
    /\ childState = "Killed"
    /\ TermObserved
    /\ exitCode = "Some(0)"
    /\ \E w \in Windows : wpc[w] = "closed" /\ local[w] = Handle
    /\ ~panicked

NoTransition == {<<st, st>> : st \in {"NotStarted", "Running", "Terminated", "Killed"}}

\* C7 as stated: only NotStarted -> Running, Running -> Terminated and
\* Running -> Killed occur, and no kill request is issued for a child already
\* Terminated or Killed.
C7_TerminalStates ==
    [][/\ <<childState, childState'>> \in
              NoTransition \cup {<<"NotStarted", "Running">>,
                                 <<"Running", "Terminated">>,
                                 <<"Running", "Killed">>}
       /\ childState \in {"Terminated", "Killed"} => kills' = kills]_vars

\* C7 amended: besides NotStarted -> Running, Running -> Terminated and
\* Running -> Killed, a shutdown after the termination was logged still kills
\* (Terminated -> Killed) and the task still logs the termination of a killed
\* child (Killed -> Terminated); nothing leads back to Running or NotStarted,
\* and a child already Killed receives no further kill request.
C7_Amended ==
    [][/\ <<childState, childState'>> \in
              NoTransition \cup {<<"NotStarted", "Running">>,
                                 <<"Running", "Terminated">>,
                                 <<"Running", "Killed">>,
                                 <<"Terminated", "Killed">>,
                                 <<"Killed", "Terminated">>}
       /\ kills # <<>> => kills' = kills]_vars

\* C7 witness: the child was killed by a shutdown and the task then logged
\* its termination.
C7_Witness ==
    /\ childState = "Terminated"
    /\ kills = <<"Ok">>
    /\ exitCode = "None"
    /\ listener = "done"

\* C8 as stated, for a shutdown that found the handle in the slot: once that
\* window-destroyed event has been handled (handle taken, kill requested,
\* completion logged), the output task eventually is not running any more.
C8_ListenerEndsAfterShutdown ==
    (\E w \in Windows : wpc[w] = "closed" /\ local[w] = Handle)
        ~> (listener # "running")

\* C9 as stated: every failure is logged as an error and none leaves the
\* component: once the hooks involved have returned, the log holds one error
\* entry per failure, the setup hook returned Ok and nothing unwound.
C9_FailuresLoggedAndSwallowed ==
    /\ setupRet # "Err"
    /\ ~panicked
    /\ SetupFailed => \E i \in 1..Len(log) : IsFailure(log[i])
    /\ \A w \in Windows :
          (wpc[w] = "closed" /\ local[w] = Handle /\ kills = <<"Err">>) =>
              \E i \in 1..Len(log) : IsFailure(log[i])

\* C10: at most one spawn attempt is made and at most one handle is created;
\* a failed setup leaves no process behind.
C10_NoRetryNoRestart ==
    /\ Len(spawns) <= 1
    /\ SetupFailed => proc = "none"
    /\ (setupPc = "done" /\ spawns = <<>>) => childState = "NotStarted"

\* C10 witness: the child exited on its own, the task logged it, the last
\* window is closed, and the one spawn is the only one on record.
C10_Witness ==
    /\ spawns = <<"Ok">>
    /\ TermObserved
    /\ kills # <<>>
    /\ \A w \in Windows : wpc[w] = "closed"
    /\ setupPc = "done"

\* C11 as stated: a shutdown path that starts (acquires the guard) after the
\* child was launched, and before any other shutdown took the handle, finds
\* the handle in the slot, so that it takes and kills the child.
C11_OverlappingShutdownKills ==
    [][\A w \in Windows :
          (wpc[w] = "lock" /\ wpc'[w] = "take" /\ spawns = <<"Ok">>
              /\ Takers = {})
            => child = Handle]_vars

\* C12: the store finds the slot empty; from the store on, when no take is in
\* progress, the handle is in the slot or exactly one handler has taken it.
C12_StoreOnEmptySlot ==
    [][/\ (setupPc = "store" /\ setupPc' # "store") =>
             /\ child = None
             /\ child' = Handle
       /\ (Stored' /\ \A w \in Windows : wpc'[w] # "clear") =>
             (child' = Handle) # (Cardinality(Takers') = 1)]_vars

\* C12 witness: the handle was stored into the empty slot after an earlier
\* shutdown had run on it, and a later shutdown has taken it.
C12_Witness ==
    /\ Stored
    /\ child = None
    /\ \E w1, w2 \in Windows :
         /\ wpc[w1] = "closed" /\ local[w1] = None
         /\ wpc[w2] = "kill" /\ local[w2] = Handle

\* C13: when the task ends because the stream closed (no event is received in
\* that step), it logs nothing, leaves the slot alone and nothing unwinds; a
\* task that ended without a Terminated event ever sent has logged no
\* termination; and a running task whose stream closed without Terminated
\* can always take its next step (receive a queued event, or end), so that it
\* completes.
C13_StreamEndIsNormal ==
    /\ [][/\ (listener = "running" /\ listener' = "done"
                 /\ Len(rx') >= Len(rx)) =>
                /\ rx = <<>> /\ rxClosed
                /\ log' = log
                /\ child' = child
                /\ ~panicked'
          /\ (listener' = "done" /\ ~termSent') => ~TermObserved'
          /\ listener = "done" => listener' = "done"]_vars
    /\ []((listener = "running" /\ rxClosed /\ ~termSent) => ENABLED Listen)

\* C13 witness: the stream closed without Terminated, the task has ended
\* without a termination entry, and the handle is still in the slot.
C13_Witness ==
    /\ listener = "done"
    /\ rxClosed
    /\ ~termSent
    /\ ~TermObserved
    /\ child = Handle
    /\ ~panicked

\* C14: whenever the output task exists or has logged anything, spawn()
\* succeeded and the handle has been stored: the slot holds it or a handler
\* has taken it.
C14_StoredBeforeListening ==
    (listener # "none" \/ ListenerLog # <<>>) =>
        /\ spawns = <<"Ok">>
        /\ setupPc \in {"started", "done"}
        /\ child = Handle \/ Takers # {}

\* C14 witness: the task is running and has logged a line while a shutdown
\* has already taken the stored handle.
C14_Witness ==
    /\ listener = "running"
    /\ Len(ListenerLog) >= 1
    /\ child = None
    /\ Takers # {}

\* Number of completion lines logged so far.
StoppedCount == Len(SelectSeq(log, IsStopped))

\* C15: a handler logs "Backend server stopped" exactly when it took the
\* handle, whatever the kill request returned: after the kill it always goes
\* on to log, the step in which a handler returns leaves the slot empty, and
\* the log holds one completion line per returned handler that took the
\* handle.
C15_StoppedIffTaken ==
    [][/\ \A w \in Windows :
            /\ (wpc[w] = "kill" /\ wpc'[w] # "kill") => wpc'[w] = "log"
            /\ (wpc[w] # "closed" /\ wpc'[w] = "closed") =>
                  /\ child' = None
                  /\ StoppedCount' =
                       StoppedCount + (IF local[w] = Handle THEN 1 ELSE 0)
       /\ StoppedCount' =
            Cardinality({w \in Takers' : wpc'[w] = "closed"})]_vars

\* C15 witness: a handler took the handle, its kill request failed, and it
\* logged the completion line and returned with the slot empty.
C15_Witness ==
    /\ kills = <<"Err">>
    /\ StoppedCount = 1
    /\ child = None
    /\ \E w \in Windows : wpc[w] = "closed" /\ local[w] = Handle

\* C16 as stated: once a child was launched, a window-destroyed event that
\* was a no-op is never the first one: some handler has taken the handle
\* before it.
C16_FirstDestroyedKills ==
    \A w \in Windows :
        (spawns = <<"Ok">> /\ wpc[w] = "closed" /\ local[w] = None)
            => Takers # {}

\* C16 amended: the kill is issued by the first window-destroyed event that
\* finds the handle in the slot, whichever window it is and whatever the
\* other windows do; window-destroyed events handled after a handler took
\* the handle are no-ops; an event other than Destroyed changes neither the
\* slot, the guard, the child nor the kill requests, and its handler returns.
C16_Amended ==
    [][\A w \in Windows :
          /\ (wpc[w] = "take" /\ wpc'[w] # "take") =>
                local'[w] = IF child = Handle /\ Takers = {} THEN Handle
                            ELSE None
          /\ (wpc[w] = "clear" /\ wpc'[w] # "clear") =>
                wpc'[w] = IF local[w] = Handle THEN "kill" ELSE "closed"
          /\ (wpc[w] = "kill" /\ wpc'[w] # "kill") =>
                Len(kills') = Len(kills) + 1
          /\ (wpc[w] # "kill" /\ wpc'[w] # wpc[w]) => kills' = kills
          /\ (wpc[w] = "other" /\ wpc'[w] # "other") =>
                /\ wpc'[w] = "open"
                /\ child' = child /\ lock' = lock
                /\ proc' = proc /\ kills' = kills /\ local' = local]_vars

\* C16 witness: one window's handler has taken the handle, killed and
\* returned while the other window is still open and handling another event.
C16_Witness ==
    \E w1, w2 \in Windows :
        /\ wpc[w1] = "closed" /\ local[w1] = Handle
        /\ wpc[w2] = "other"
        /\ Len(kills) = 1

\* C17: receiving an event that is neither Stdout, Stderr nor Terminated
\* logs nothing, keeps the task running and leaves the slot unchanged.
C17_OtherEventIgnored ==
    [][(Len(rx') < Len(rx)
          /\ Head(rx).kind \notin {"Stdout", "Stderr", "Terminated"}) =>
            /\ rx' = Tail(rx)
            /\ log' = log
            /\ listener = "running" /\ listener' = "running"
            /\ child' = child]_vars

\* C17 witness: the child wrote two events and the still-running task has
\* received both, logging only one of them.
C17_Witness ==
    /\ emitted = 2
    /\ rx = <<>>
    /\ ~termSent
    /\ Len(ListenerLog) = 1
    /\ listener = "running"

\* The steps of the handler of window w once an event is dispatched to it.
HandlerStep(w) ==
    \/ WindowOtherReturn(w)
    \/ WindowLock(w)
    \/ WindowTakeRead(w)
    \/ WindowTakeWrite(w)
    \/ WindowKill(w)
    \/ WindowLog(w)

\* The holder of the guard, if any, can take its next step.
HolderCanStep ==
    \/ lock = BySetup /\ ENABLED Setup
    \/ \E v \in Windows : lock = ByWindow(v) /\ ENABLED HandlerStep(v)

\* C18: the guard is held by the setup closure only at its store and by a
\* handler only during its take, hence never at a kill request or a log line;
\* a setup closure or handler that has not returned can take its next step,
\* or waits for a guard whose holder can take its next step: nothing waits
\* forever, and since neither has a loop, each returns.
C18_LockScopeAndProgress ==
    /\ (lock = BySetup) <=> (setupPc = "store")
    /\ \A w \in Windows :
          (lock = ByWindow(w)) <=> (wpc[w] \in {"take", "clear"})
    /\ setupPc # "done" => (ENABLED Setup \/ HolderCanStep)
    /\ \A w \in Windows :
          wpc[w] \notin {"open", "closed"} =>
              (ENABLED HandlerStep(w) \/ HolderCanStep)

\* C18 witness: a handler holds the guard in the middle of its take while
\* the setup closure and the other handler both wait for it.
C18_Witness ==
    \E w1, w2 \in Windows :
        /\ wpc[w1] = "clear" /\ lock = ByWindow(w1)
        /\ wpc[w2] = "lock"
        /\ setupPc = "lock"

====
